---- MODULE Spec2Model ----
(***************************************************************************)
(* Neural fingerprinting (NeuralFP.py) and the composable loss framework   *)
(* (loss_functions.py) as state machines.                                  *)
(*                                                                         *)
(* Numbers: fingerprint target codes are kept in units of 1e-4 (0.7 is     *)
(* 7000, -0.2357 is -2357), so the arithmetic of the source is exact       *)
(* integer arithmetic here.  Tensors are 0-based functions, as the         *)
(* source indexes them.                                                    *)
(***************************************************************************)
EXTENDS Integers, Sequences, FiniteSets, TLC

VARIABLES
    \* ---- NeuralFP object (NeuralFP.__init__) ----
    dataset_name,   \* self.dataset_name
    num_dx,         \* self.num_dx
    num_class,      \* self.num_class
    fp_dx,          \* self.fp_dx : 0-based array of directions, or None
    fp_target,      \* self.fp_target[c][j][c2], or None
    fp_target_type, \* what self.fp_target is: "None" | "ndarray" | "Variable"
    fp_files,       \* what pickle.dump wrote under log_dir, or None
    init_status,    \* "new" | "ok" | "ValueError"
    \* ---- NeuralFP.train: arguments ----
    num_epochs,             \* num_epochs
    n_batches,              \* len(train_loader)
    verbosity_epoch,        \* verbosity_epoch
    regularize_adv_scale,   \* regularize_adv_scale, or None
    \* ---- NeuralFP.train: locals and the objects it drives ----
    pc,             \* position in train
    epoch,          \* epoch
    idx,            \* idx
    inputs,         \* inputs of the current batch
    real_bs,        \* real_bs = labels.size(0)
    inputs_net,     \* inputs_net
    fp_blocks,      \* per direction i, the rows whose logits are logits_p
    loss_bound,     \* whether the local `loss` has been assigned
    loss_scale,     \* <<numerator, denominator>> of the factor on reg_adv_loss, or None
    grads,          \* classifier gradient buffers: "zero" | "accum"
    params,         \* number of optimizer steps applied to the parameters
    net_mode,       \* classifier_net mode: "train" | "eval"
    epochs_run,     \* epochs whose end-of-epoch block completed
    steps_run,      \* batch steps completed in the current epoch
    saved,          \* epochs handed to checkpoints.save_state_dict
    train_status,   \* "" | "returned" | the exception that ended train
    \* ---- RegularizedLoss and its terms (loss_functions.py) ----
    losses,         \* self.losses : name -> term
    scalars,        \* self.scalars : name -> weight
    rl_status,      \* "new" | "ok" | "AssertionError" (constructor)
    fix_im,         \* per term, the attribute fix_im of the term object
    net_grad,       \* per network, its gradient buffers: "zero" | "accum"
    zero_calls,     \* per network, the net.zero_grad() calls of the last operation
    last_op,        \* the last operation called on the RegularizedLoss
    result,         \* outcome of the last forward: [status, value]
    \* ---- NeuralFP.eval ----
    n_val,          \* len(val_loader)
    n_labels,       \* len(xlabel)
    tau,            \* tau
    tau2,           \* tau of a second run of eval over the same batches and distances
    e_pc,           \* position in eval
    e_idx,          \* idx
    l_idx,          \* position of the loop over xlabel
    nf_ref,         \* reference state of the NFLoss object: "unset" | "set"
    min_dist,       \* per example, the least loss_fp[i] of this batch so far
    adv_mask,       \* adv_mask
    adv_mask2,      \* adv_mask of the second run
    eval_status,    \* "" | "returned" | the exception that ended eval
    \* ---- CWLossF6 (loss_functions.py), one example of the batch ----
    cw_normalizer,  \* whether self.normalizer is a normalizer (FALSE: the default None)
    cw_kappa,       \* self.kappa
    cw_out,         \* the example's row of classifier_out
    cw_label,       \* the example's label
    cw_targeted,    \* kwargs.get('targeted', False)
    cw_max_other,   \* the example's max_other, or unbound
    cw_f6,          \* the example's f6, or unbound
    cw_status       \* "new" | "ok" | the exception forward raised

fpVars == <<dataset_name, num_dx, num_class, fp_dx, fp_target, fp_target_type, fp_files,
           init_status>>

trainArgs == <<num_epochs, n_batches, verbosity_epoch, regularize_adv_scale>>

trainLocals == <<pc, epoch, idx, inputs, real_bs, inputs_net, fp_blocks, loss_bound,
                 loss_scale, grads, params, net_mode, epochs_run, steps_run, saved,
                 train_status>>

trainVars == <<trainArgs, trainLocals>>

lossVars == <<losses, scalars, rl_status, fix_im, net_grad, zero_calls, last_op, result>>

evalArgs == <<n_val, n_labels, tau, tau2>>

evalVars == <<evalArgs, e_pc, e_idx, l_idx, nf_ref, min_dist, adv_mask,
              adv_mask2, eval_status>>

cwVars == <<cw_normalizer, cw_kappa, cw_out, cw_label, cw_targeted, cw_max_other, cw_f6,
           cw_status>>

vars == <<fpVars, trainVars, lossVars, evalVars, cwVars>>

\* Python's None, and a value that is present
None == <<>>

Some(v) == <<v>>

Get(o) == o[1]

\* a local that no statement has assigned yet
Unbound == <<>>

\* ------------------------------------------------------------------ bounds
MaxDx == 2
MaxClass == 2
MaxEpochs == 1
MaxBatches == 2
MaxBatchSize == 2
MaxVerbosity == 2
MaxScale == 1
MaxWeight == 2
MaxImage == 1
MaxValBatches == 2
MaxLabels == 2
MaxTau == 2
MaxDist == 2
MaxEvalBatchSize == 2
MaxCWClass == 3
MaxLogit == 1
MaxKappa == 1

\* ------------------------------------------------------------------ arrays
Size(a) == Cardinality(DOMAIN a)

\* torch.cat((a, b)) along dimension 0
Cat(a, b) ==
    [k \in 0..(Size(a) + Size(b) - 1) |->
        IF k < Size(a) THEN a[k] ELSE b[k - Size(a)]]

\* a[lo:hi]
Slice(a, lo, hi) == [k \in 0..(hi - lo - 1) |-> a[lo + k]]

\* ------------------------------------------------- fingerprint generation
DatasetNames == {"mnist", "cifar", "cifar10"}

MnistOff == -2357
MnistOn == 7000
CifarOff == -2540
CifarOn == 6000

\* 1.5 * x on the 1e-4 grid
TimesOneAndAHalf(x) == (x * 15) \div 10

\* eps, in units of the grid the directions are drawn on
Eps == 1

\* np.random.rand(...) * eps : a value of [0, eps)
\* (np.random.rand(...) - 0.5) * 2 * eps : a value of [-eps, eps)
\* one pixel per direction, on an integer grid of the interval
DxValues(name) == IF name = "mnist" THEN 0..Eps ELSE (-Eps)..Eps

\* range(n): empty for n <= 0
Range(n) == 0..(n - 1)

\* the lists [ ... for _ in range(num_dx)] the random source can produce
FpDxChoices(name, D) == [Range(D) -> DxValues(name)]

\* fp_target after the fill loops (and, for CIFAR 10, the 1.5 scaling)
FpTargetBroken(name, D, C) ==
    [i \in Range(C) |-> [j \in Range(D) |-> [k \in Range(C) |->
        IF name = "mnist"
        THEN (IF i = k /\ j < D - 1 THEN MnistOn ELSE MnistOff)
        ELSE TimesOneAndAHalf(IF i = k /\ j < D - 1 THEN CifarOn ELSE CifarOff)]]]

FpTarget(name, D, C) ==
    [i \in Range(C) |-> [j \in Range(D) |-> [k \in Range(C) |->
        IF name = "mnist"
        THEN (IF i = k THEN MnistOn ELSE MnistOff)
        ELSE TimesOneAndAHalf(IF i = k THEN CifarOn ELSE CifarOff)]]]

\* line 97 stores the local fp_target: the mnist branch leaves it the numpy
\* array (its np2var result went to self.fp_target at line 77 only), the other
\* branch rebinds it to the torch variable at line 94
FpTargetType(name) == IF name = "mnist" THEN "ndarray" ELSE "Variable"

\* np.ones(shape) raises ValueError on a negative dimension
NpOnesFails(D, C) == D < 0 \/ C < 0

\* eval not called
EvalIdle ==
    /\ n_val = 0
    /\ n_labels = 0
    /\ tau = 0
    /\ tau2 = 0
    /\ e_pc = "Idle"
    /\ e_idx = 0
    /\ l_idx = 0
    /\ nf_ref = "unset"
    /\ min_dist = Unbound
    /\ adv_mask = Unbound
    /\ adv_mask2 = Unbound
    /\ eval_status = ""

\* no CWLossF6 called
CWIdle ==
    /\ cw_normalizer = FALSE
    /\ cw_kappa = 0
    /\ cw_out = Unbound
    /\ cw_label = 0
    /\ cw_targeted = FALSE
    /\ cw_max_other = Unbound
    /\ cw_f6 = Unbound
    /\ cw_status = "new"

\* no RegularizedLoss in play
LossIdle ==
    /\ losses = <<>>
    /\ scalars = <<>>
    /\ rl_status = "new"
    /\ fix_im = <<>>
    /\ net_grad = <<>>
    /\ zero_calls = <<>>
    /\ last_op = "none"
    /\ result = [status |-> "none", value |-> 0]

\* a NeuralFP object about to be constructed
NewObject ==
    /\ dataset_name \in DatasetNames
    /\ num_dx \in (-1)..MaxDx
    /\ num_class \in (-1)..MaxClass
    /\ fp_dx = None
    /\ fp_target = None
    /\ fp_target_type = "None"
    /\ fp_files = None
    /\ init_status = "new"

\* train not called
TrainIdle ==
    /\ pc = "Idle"
    /\ epoch = 0
    /\ idx = 0
    /\ inputs = Unbound
    /\ real_bs = 0
    /\ inputs_net = Unbound
    /\ fp_blocks = Unbound
    /\ loss_bound = FALSE
    /\ loss_scale = None
    /\ grads = "zero"
    /\ params = 0
    /\ net_mode = "eval"
    /\ epochs_run = 0
    /\ steps_run = 0
    /\ saved = <<>>
    /\ train_status = ""

NoTrainArgs ==
    /\ num_epochs = 0
    /\ n_batches = 0
    /\ verbosity_epoch = 1
    /\ regularize_adv_scale = None

InitFP == NewObject /\ TrainIdle /\ NoTrainArgs /\ LossIdle /\ EvalIdle /\ CWIdle

\* NeuralFP.__init__, the normal return
NeuralFP_init ==
    /\ init_status = "new"
    /\ ~NpOnesFails(num_dx, num_class)
    /\ \E dx \in FpDxChoices(dataset_name, num_dx) :
        /\ fp_dx' = Some(dx)
        /\ fp_target' = Some(FpTarget(dataset_name, num_dx, num_class))
        /\ fp_target_type' = FpTargetType(dataset_name)
        /\ fp_files' = IF dataset_name = "mnist"
                       THEN Some([fp_inputs_dx |-> dx,
                                  fp_outputs |-> FpTarget(dataset_name, num_dx, num_class)])
                       ELSE None
    /\ init_status' = "ok"
    /\ UNCHANGED <<dataset_name, num_dx, num_class, trainVars, lossVars, evalVars, cwVars>>

\* NeuralFP.__init__, np.ones raising before anything is stored or dumped
NeuralFP_init_raise ==
    /\ init_status = "new"
    /\ NpOnesFails(num_dx, num_class)
    /\ init_status' = "ValueError"
    /\ UNCHANGED <<dataset_name, num_dx, num_class, fp_dx, fp_target, fp_target_type,
                   fp_files, trainVars,
                   lossVars, evalVars, cwVars>>

NextFP == NeuralFP_init \/ NeuralFP_init_raise

SpecFP == InitFP /\ [][NextFP]_vars

\* ------------------------------------------------------------ NeuralFP.train
\* pixel values of the inputs, the ends of the [0.0, 1.0] range
InputValues == {0, 1}

\* regularize_adv_scale: None, or a number (0 included)
ScaleValues == {None} \cup {Some(v) : v \in 0..MaxScale}

\* the arguments of a call of train
TrainArgs ==
    /\ num_epochs \in 0..MaxEpochs
    /\ n_batches \in 0..MaxBatches
    /\ verbosity_epoch \in 1..MaxVerbosity
    /\ regularize_adv_scale \in ScaleValues

\* an object about to be constructed for a dataset with classes
TrainObject ==
    /\ dataset_name \in DatasetNames
    /\ num_dx \in 0..MaxDx
    /\ num_class = MaxClass
    /\ fp_dx = None
    /\ fp_target = None
    /\ fp_target_type = "None"
    /\ fp_files = None
    /\ init_status = "new"

InitTrain == TrainObject /\ TrainIdle /\ TrainArgs /\ LossIdle /\ EvalIdle /\ CWIdle

\* the loop `for i in range(self.num_dx)` around torch.cat, from i on
RECURSIVE BuildInputsNet(_, _, _, _)
BuildInputsNet(net, dx, i, D) ==
    IF i >= D THEN net
    ELSE BuildInputsNet(Cat(net, [k \in DOMAIN net |-> net[k] + dx[i]]), dx, i + 1, D)

\* logits_net[(i + 1) * real_bs:(i + 2) * real_bs], by the input rows it comes from
LogitsP(net, i, bs) == Slice(net, (i + 1) * bs, (i + 2) * bs)

\* the factor on reg_adv_loss, as <<numerator, denominator>>
RegScale(name, D, override) ==
    IF override # None THEN <<Get(override), 1>>
    ELSE IF name = "cifar" THEN <<D + 50, D>>
    ELSE <<1, 1>>

\* 50.0 / self.num_dx raises ZeroDivisionError
RegScaleRaises(name, D, override) == override = None /\ name = "cifar" /\ D = 0

Abort(err) ==
    /\ pc' = "Aborted"
    /\ train_status' = err

\* lines 123-147: setup
TrainStart ==
    /\ init_status = "ok"
    /\ pc = "Idle"
    /\ net_mode' = "train"
    /\ pc' = "EpochHead"
    /\ epoch' = 0
    /\ UNCHANGED <<cwVars, fpVars, lossVars, evalVars, trainArgs, idx, inputs, real_bs, inputs_net, fp_blocks,
                   loss_bound, loss_scale, grads, params, epochs_run, steps_run,
                   saved, train_status>>

\* line 153: for epoch in range(num_epochs + 1), entering an epoch
TrainingEpoch ==
    /\ pc = "EpochHead"
    /\ epoch < num_epochs + 1
    /\ pc' = "BatchHead"
    /\ idx' = 0
    /\ steps_run' = 0
    /\ UNCHANGED <<cwVars, fpVars, lossVars, evalVars, trainArgs, epoch, inputs, real_bs, inputs_net, fp_blocks,
                   loss_bound, loss_scale, grads, params, net_mode, epochs_run,
                   saved, train_status>>

\* lines 248-250: the loop is exhausted, train returns
TrainReturn ==
    /\ pc = "EpochHead"
    /\ epoch >= num_epochs + 1
    /\ pc' = "Done"
    /\ train_status' = "returned"
    /\ UNCHANGED <<cwVars, fpVars, lossVars, evalVars, trainArgs, epoch, idx, inputs, real_bs, inputs_net,
                   fp_blocks, loss_bound, loss_scale, grads, params, net_mode,
                   epochs_run, steps_run, saved>>

\* line 165: torch.index_select raises TypeError on an input that is no tensor
IndexSelectRaises(type) == type # "Variable"

\* lines 154-174: the loader yields a batch; build inputs_net
BuildPerturbed ==
    /\ pc = "BatchHead"
    /\ idx < n_batches
    /\ \E bs \in 1..MaxBatchSize :
       \E x \in [Range(bs) -> InputValues] :
        /\ inputs' = x
        /\ real_bs' = bs
        /\ IF IndexSelectRaises(fp_target_type)
           THEN /\ Abort("TypeError")
                /\ UNCHANGED inputs_net
           ELSE /\ inputs_net' = BuildInputsNet(x, Get(fp_dx), 0, num_dx)
                /\ pc' = "zero_grad"
                /\ UNCHANGED train_status
    /\ UNCHANGED <<cwVars, fpVars, lossVars, evalVars, trainArgs, epoch, idx, fp_blocks,
                   loss_bound, loss_scale, grads, params, net_mode, epochs_run,
                   steps_run, saved>>

\* lines 177-180: classifier to training mode, optimizer.zero_grad()
ZeroGradSkipped ==
    /\ pc = "zero_grad"
    /\ net_mode' = "train"
    /\ pc' = "forward"
    /\ UNCHANGED <<cwVars, fpVars, lossVars, evalVars, trainArgs, epoch, idx, inputs, real_bs, inputs_net,
                   fp_blocks, loss_bound, loss_scale, grads, params, epochs_run, steps_run,
                   saved, train_status>>

ZeroGrad ==
    /\ pc = "zero_grad"
    /\ net_mode' = "train"
    /\ grads' = "zero"
    /\ pc' = "forward"
    /\ UNCHANGED <<cwVars, fpVars, lossVars, evalVars, trainArgs, epoch, idx, inputs, real_bs, inputs_net,
                   fp_blocks, loss_bound, loss_scale, params, epochs_run, steps_run,
                   saved, train_status>>

\* lines 183-200: one forward pass of inputs_net, vanilla loss, fingerprint loss
Forward ==
    /\ pc = "forward"
    /\ fp_blocks' = [i \in Range(num_dx) |-> LogitsP(inputs_net, i, real_bs)]
    /\ loss_bound' = TRUE
    /\ pc' = "combine"
    /\ UNCHANGED <<cwVars, fpVars, lossVars, evalVars, trainArgs, epoch, idx, inputs, real_bs, inputs_net,
                   loss_scale, grads, params, net_mode, epochs_run, steps_run, saved,
                   train_status>>

\* lines 209-215: loss = loss + scale * reg_adv_loss
Combine ==
    /\ pc = "combine"
    /\ IF RegScaleRaises(dataset_name, num_dx, regularize_adv_scale)
       THEN /\ Abort("ZeroDivisionError")
            /\ UNCHANGED loss_scale
       ELSE /\ loss_scale' = RegScale(dataset_name, num_dx, regularize_adv_scale)
            /\ pc' = "backward"
            /\ UNCHANGED train_status
    /\ UNCHANGED <<cwVars, fpVars, lossVars, evalVars, trainArgs, epoch, idx, inputs, real_bs, inputs_net,
                   fp_blocks, loss_bound, grads, params, net_mode, epochs_run,
                   steps_run, saved>>

\* line 218: loss.backward()
Backward ==
    /\ pc = "backward"
    /\ grads' = "accum"
    /\ pc' = "step"
    /\ UNCHANGED <<cwVars, fpVars, lossVars, evalVars, trainArgs, epoch, idx, inputs, real_bs, inputs_net,
                   fp_blocks, loss_bound, loss_scale, params, net_mode, epochs_run,
                   steps_run, saved, train_status>>

\* lines 219-238: optimizer.step(); every 100th step the held-out accuracy is
\* reported with the classifier in eval mode; then the next batch
OptimizerStep ==
    /\ pc = "step"
    /\ params' = params + 1
    /\ net_mode' = IF idx % 100 = 0 THEN "eval" ELSE net_mode
    /\ idx' = idx + 1
    /\ steps_run' = steps_run + 1
    /\ pc' = "BatchHead"
    /\ UNCHANGED <<cwVars, fpVars, lossVars, evalVars, trainArgs, epoch, inputs, real_bs, inputs_net, fp_blocks,
                   loss_bound, loss_scale, grads, epochs_run, saved, train_status>>

\* lines 240-246: end of epoch; float(loss) reads the local of the last batch step
EpochEnd ==
    /\ pc = "BatchHead"
    /\ idx >= n_batches
    /\ IF epoch % verbosity_epoch = 0 /\ ~loss_bound
       THEN /\ Abort("UnboundLocalError")
            /\ UNCHANGED <<epoch, epochs_run, saved>>
       ELSE /\ saved' = IF epoch % verbosity_epoch = 0 THEN Append(saved, epoch) ELSE saved
            /\ epochs_run' = epochs_run + 1
            /\ epoch' = epoch + 1
            /\ pc' = "EpochHead"
            /\ UNCHANGED train_status
    /\ UNCHANGED <<cwVars, fpVars, lossVars, evalVars, trainArgs, idx, inputs, real_bs, inputs_net, fp_blocks,
                   loss_bound, loss_scale, grads, params, net_mode, steps_run>>

NextTrain ==
    \/ NeuralFP_init
    \/ TrainStart
    \/ TrainingEpoch
    \/ TrainReturn
    \/ BuildPerturbed
    \/ ZeroGrad
    \/ Forward
    \/ Combine
    \/ Backward
    \/ OptimizerStep
    \/ EpochEnd

SpecTrain == InitTrain /\ [][NextTrain]_vars

\* ------------------------------------------- loss_functions.py: the terms
Names == {"a", "b"}

Classifiers == {"net1", "net2"}

\* the DistModel an LpipsRegularization builds for itself
DistModelOf(k) == IF k = "a" THEN "dm_a" ELSE "dm_b"

AllNets == Classifiers \cup {DistModelOf(k) : k \in Names}

ReferenceKinds == {"L2Regularization", "LpipsRegularization"}

\* the term objects that can be stored under the name k
Terms(k) ==
    {[kind |-> "PartialXentropy", net |-> c, normalizer |-> FALSE] : c \in Classifiers}
    \cup {[kind |-> "CWLossF6", net |-> c, normalizer |-> n] :
              c \in Classifiers, n \in BOOLEAN}
    \cup {[kind |-> "L2Regularization", net |-> "none", normalizer |-> FALSE]}
    \cup {[kind |-> "LpipsRegularization", net |-> DistModelOf(k), normalizer |-> FALSE]}

\* isinstance(loss, ReferenceRegularizer)
IsReference(term) == term.kind \in ReferenceKinds

\* self.nets after __init__: L2Regularization appends nothing
NetsOf(term) == IF term.kind = "L2Regularization" THEN <<>> ELSE <<term.net>>

\* net in nets
Holds(nets, n) == \E i \in 1..Len(nets) : nets[i] = n

\* shape of the tensor a term's forward returns
OutShape(term) ==
    CASE term.kind = "PartialXentropy" -> "()"
      [] term.kind = "CWLossF6" -> "(N,1)"
      [] term.kind = "L2Regularization" -> "(N,1)"
      [] OTHER -> "(N,1,1,1)"

\* the attribute fix_im of a term object
NoAttribute == [attr |-> "missing", val |-> 0]

NoneImage == [attr |-> "None", val |-> 0]

Image(v) == [attr |-> "image", val |-> v]

Images == 0..MaxImage

\* ---- weights
NumberWeights ==
    {[type |-> t, shape |-> "()", val |-> v] : t \in {"float", "int"}, v \in 1..MaxWeight}

TensorWeights ==
    {[type |-> "tensor", shape |-> sh, val |-> v] :
        sh \in {"(1)", "(N,1)", "(N)"}, v \in 1..MaxWeight}

NoneWeight == [type |-> "None", shape |-> "()", val |-> 0]

WeightChoices == NumberWeights \cup TensorWeights

\* isinstance(scalar, Number)
IsNumber(w) == w.type \in {"float", "int"}

\* scalar.numel() == 1, for a batch of N >= 2 examples
NumelIsOne(shape) == shape \in {"()", "(1)"}

\* ---- forward of one term: [status, value]
Ok(v) == [status |-> "ok", value |-> v]

Raise(err) == [status |-> err, value |-> 0]

\* the classifier and its criterion, an uninterpreted network
ClassifierScore(net, examples) == examples + (IF net = "net1" THEN 1 ELSE 2)

\* img_utils.nchw_l2(x, y, squared=True): x - y raises on y = None
nchw_l2(x, y) == IF y.attr = "None" THEN Raise("TypeError") ELSE Ok((x - y.val) * (x - y.val))

\* dist_model.forward_var, an uninterpreted network
forward_var(x, y) == IF x = y THEN 0 ELSE 1

TermForward(term, fx, examples) ==
    CASE term.kind = "PartialXentropy" -> Ok(ClassifierScore(term.net, examples))
      [] term.kind = "CWLossF6" ->
            \* self.normalizer.forward with the default normalizer=None
            IF ~term.normalizer THEN Raise("AttributeError")
            ELSE Ok(ClassifierScore(term.net, examples))
      [] term.kind = "L2Regularization" ->
            \* reading self.fix_im, which __init__ never assigned
            IF fx.attr = "missing" THEN Raise("AttributeError")
            ELSE nchw_l2(examples, fx)
      [] OTHER ->
            IF fx.attr = "missing" THEN Raise("AttributeError")
            \* 2 * self.fix_im - 1. with fix_im = None
            ELSE IF fx.attr = "None" THEN Raise("TypeError")
            ELSE Ok(forward_var(2 * examples - 1, 2 * fx.val - 1))

\* the assert of RegularizedLoss.forward, evaluated left to right
ScalarCheck(scalar, shape) ==
    IF scalar.type = "float" THEN "ok"
    \* scalar.numel on an int or on None
    ELSE IF scalar.type \in {"int", "None"} THEN "AttributeError"
    ELSE IF NumelIsOne(scalar.shape) \/ scalar.shape = shape THEN "ok"
    ELSE "AssertionError"

\* the orders in which a dict of these keys can be iterated
Orders(S) ==
    {o \in [1..Cardinality(S) -> S] : \A i, j \in DOMAIN o : i # j => o[i] # o[j]}

AnyOrder(S) == CHOOSE o \in Orders(S) : TRUE

\* the loop of RegularizedLoss.forward from the i-th key on
RECURSIVE ForwardFrom(_, _, _, _)
ForwardFrom(order, i, output, examples) ==
    IF i > Len(order)
    THEN (IF Len(order) = 0 THEN [status |-> "None", value |-> 0] ELSE Ok(output))
    ELSE LET k == order[i]
             loss_val == TermForward(losses[k], fix_im[k], examples)
             check == ScalarCheck(scalars[k], OutShape(losses[k]))
         IN  IF loss_val.status # "ok" THEN loss_val
             ELSE IF check # "ok" THEN Raise(check)
             ELSE ForwardFrom(order, i + 1, output + loss_val.value * scalars[k].val,
                              examples)

\* PartialLoss.zero_grad: net.zero_grad() for each net of self.nets
RECURSIVE PartialLoss_zero_grad_once(_, _, _)
PartialLoss_zero_grad_once(nets, i, calls) ==
    IF i > Len(nets) THEN calls
    ELSE PartialLoss_zero_grad_once(nets, i + 1, [calls EXCEPT ![nets[i]] = 1])

RECURSIVE PartialLoss_zero_grad(_, _, _)
PartialLoss_zero_grad(nets, i, calls) ==
    IF i > Len(nets) THEN calls
    ELSE PartialLoss_zero_grad(nets, i + 1, [calls EXCEPT ![nets[i]] = @ + 1])

\* zero_grad of every term, in the order of the loop
RECURSIVE ZeroGradAll(_, _, _)
ZeroGradAll(order, i, calls) ==
    IF i > Len(order) THEN calls
    ELSE ZeroGradAll(order, i + 1,
                     PartialLoss_zero_grad(NetsOf(losses[order[i]]), 1, calls))

NoCalls == [n \in AllNets |-> 0]

\* gradient buffers after the net.zero_grad() calls counted in `calls`
Zeroed(calls) == [n \in AllNets |-> IF calls[n] > 0 THEN "zero" ELSE net_grad[n]]

\* ---- the RegularizedLoss
InitLoss ==
    /\ \E ks \in SUBSET Names : losses \in {f \in [ks -> UNION {Terms(k) : k \in ks}] :
                                              \A k \in ks : f[k] \in Terms(k)}
    /\ \E ks \in SUBSET Names : scalars \in [ks -> WeightChoices]
    /\ rl_status = "new"
    /\ fix_im = [k \in DOMAIN losses |-> NoAttribute]
    /\ net_grad = [n \in AllNets |-> "zero"]
    /\ zero_calls = NoCalls
    /\ last_op = "none"
    /\ result = [status |-> "none", value |-> 0]

\* lines 18-30, the assert holding
RegularizedLoss_init ==
    /\ rl_status = "new"
    /\ DOMAIN losses = DOMAIN scalars
    /\ rl_status' = "ok"
    /\ last_op' = "__init__"
    /\ UNCHANGED <<cwVars, fpVars, trainVars, evalVars, losses, scalars, fix_im, net_grad, zero_calls,
                   result>>

\* lines 18-30, the assert failing
RegularizedLoss_init_raise ==
    /\ rl_status = "new"
    /\ DOMAIN losses # DOMAIN scalars
    /\ rl_status' = "AssertionError"
    /\ last_op' = "__init__"
    /\ UNCHANGED <<cwVars, fpVars, trainVars, evalVars, losses, scalars, fix_im, net_grad, zero_calls,
                   result>>

\* lines 32-51
forward ==
    /\ rl_status = "ok"
    /\ \E examples \in Images, order \in Orders(DOMAIN losses) :
        result' = ForwardFrom(order, 1, 0, examples)
    /\ last_op' = "forward"
    /\ zero_calls' = NoCalls
    /\ UNCHANGED <<cwVars, fpVars, trainVars, evalVars, losses, scalars, rl_status, fix_im, net_grad>>

\* the name of a direct call of the forward of the term stored under k
TermOp(k) == IF k = "a" THEN "forward of term a" ELSE "forward of term b"

\* forward of one term object, called directly (lines 119, 152, 225, 244)
term_forward ==
    /\ rl_status = "ok"
    /\ \E k \in DOMAIN losses, examples \in Images :
        /\ result' = TermForward(losses[k], fix_im[k], examples)
        /\ last_op' = TermOp(k)
    /\ zero_calls' = NoCalls
    /\ UNCHANGED <<cwVars, fpVars, trainVars, evalVars, losses, scalars, rl_status, fix_im, net_grad>>

\* the caller backpropagates the score forward returned
CallerBackward ==
    /\ rl_status = "ok"
    /\ last_op = "forward"
    /\ result.status = "ok"
    /\ net_grad' = [n \in AllNets |->
                       IF \E k \in DOMAIN losses : Holds(NetsOf(losses[k]), n)
                       THEN "accum" ELSE net_grad[n]]
    /\ last_op' = "backward"
    /\ zero_calls' = NoCalls
    /\ UNCHANGED <<cwVars, fpVars, trainVars, evalVars, losses, scalars, rl_status, fix_im, result>>

\* ReferenceRegularizer.setup_attack_batch on every reference term (lines 196-204),
\* zero_grad on the others
ReferenceSetup(img) ==
    [k \in DOMAIN losses |-> IF IsReference(losses[k]) THEN Image(img) ELSE fix_im[k]]

\* ReferenceRegularizer.cleanup_attack_batch on every reference term (lines 207-212)
ReferenceCleanupKeeps == fix_im

ReferenceCleanup ==
    [k \in DOMAIN losses |-> IF IsReference(losses[k]) THEN NoneImage ELSE fix_im[k]]

\* lines 81-83: every weight that is not a Number becomes None
ClearedScalarsDropped ==
    [k \in {j \in DOMAIN scalars : IsNumber(scalars[j])} |-> scalars[k]]

ClearedScalars ==
    [k \in DOMAIN scalars |-> IF IsNumber(scalars[k]) THEN scalars[k] ELSE NoneWeight]

\* lines 54-65
setup_attack_batch ==
    /\ rl_status = "ok"
    /\ \E img \in Images : fix_im' = ReferenceSetup(img)
    /\ zero_calls' = ZeroGradAll(AnyOrder(DOMAIN losses), 1, NoCalls)
    /\ net_grad' = Zeroed(zero_calls')
    /\ last_op' = "setup_attack_batch"
    /\ UNCHANGED <<cwVars, fpVars, trainVars, evalVars, losses, scalars, rl_status, result>>

\* lines 68-83
cleanup_attack_batch ==
    /\ rl_status = "ok"
    /\ fix_im' = ReferenceCleanup
    /\ zero_calls' = ZeroGradAll(AnyOrder(DOMAIN losses), 1, NoCalls)
    /\ net_grad' = Zeroed(zero_calls')
    /\ scalars' = ClearedScalars
    /\ last_op' = "cleanup_attack_batch"
    /\ UNCHANGED <<cwVars, fpVars, trainVars, evalVars, losses, rl_status, result>>

\* lines 86-88
zero_grad ==
    /\ rl_status = "ok"
    /\ zero_calls' = ZeroGradAll(AnyOrder(DOMAIN losses), 1, NoCalls)
    /\ net_grad' = Zeroed(zero_calls')
    /\ last_op' = "zero_grad"
    /\ UNCHANGED <<cwVars, fpVars, trainVars, evalVars, losses, scalars, rl_status, fix_im, result>>

\* an object the loss framework does not touch
FPIdle ==
    /\ dataset_name = "cifar"
    /\ num_dx = 1
    /\ num_class = 2
    /\ fp_dx = None
    /\ fp_target = None
    /\ fp_target_type = "None"
    /\ fp_files = None
    /\ init_status = "new"

InitLossSpec == FPIdle /\ TrainIdle /\ NoTrainArgs /\ InitLoss /\ EvalIdle /\ CWIdle

NextLoss ==
    \/ RegularizedLoss_init
    \/ RegularizedLoss_init_raise
    \/ forward
    \/ term_forward
    \/ CallerBackward
    \/ setup_attack_batch
    \/ cleanup_attack_batch
    \/ zero_grad

SpecLoss == InitLossSpec /\ [][NextLoss]_vars

\* ------------------------------------------------------------- NeuralFP.eval
\* the values loss.forward(label) returns per example: a mean squared error
MSEValues == {r * r : r \in 0..MaxDist}

\* torch.sqrt
Sqrt(x) == CHOOSE r \in 0..x : r * r = x

\* lines 294-297: the loop over the examples of the batch
FlagExamplesAtLeast(mask, dist, t) ==
    [i \in DOMAIN mask |-> IF dist[i] >= t THEN 1 ELSE mask[i]]

FlagExamples(mask, dist, t) ==
    [i \in DOMAIN mask |-> IF dist[i] <= t THEN 1 ELSE mask[i]]

Min(a, b) == IF a <= b THEN a ELSE b

EvalArgs ==
    /\ n_val \in 0..MaxValBatches
    /\ n_labels \in 0..MaxLabels
    /\ tau \in 0..MaxTau
    /\ tau2 \in 0..MaxTau

EvalStartState ==
    /\ e_pc = "Idle"
    /\ e_idx = 0
    /\ l_idx = 0
    /\ nf_ref = "unset"
    /\ min_dist = Unbound
    /\ adv_mask = Unbound
    /\ adv_mask2 = Unbound
    /\ eval_status = ""

InitEval ==
    FPIdle /\ TrainIdle /\ NoTrainArgs /\ LossIdle /\ EvalArgs /\ EvalStartState /\ CWIdle

EvalAbort(err) ==
    /\ e_pc' = "Aborted"
    /\ eval_status' = err

\* lines 265-271: classifier to eval mode, the NFLoss object is built
EvalStart ==
    /\ init_status = "ok"
    /\ e_pc = "Idle"
    /\ net_mode' = "eval"
    /\ e_pc' = "BatchHead"
    /\ e_idx' = 0
    /\ UNCHANGED <<cwVars, fpVars, lossVars, trainArgs, pc, epoch, idx, inputs, real_bs,
                   inputs_net, fp_blocks, loss_bound, loss_scale, grads, params,
                   epochs_run, steps_run, saved, train_status>>
    /\ UNCHANGED <<evalArgs, l_idx, nf_ref, min_dist, adv_mask, adv_mask2,
                   eval_status>>

\* lines 273-287: the loader yields a batch; loss.setup_attack_batch(inputs);
\* adv_mask = torch.zeros(real_bs)
EvalSetupBatch ==
    /\ e_pc = "BatchHead"
    /\ e_idx < n_val
    /\ \E bs \in 1..MaxEvalBatchSize :
        /\ adv_mask' = [i \in Range(bs) |-> 0]
        /\ adv_mask2' = [i \in Range(bs) |-> 0]
        /\ min_dist' = [i \in Range(bs) |-> MaxDist + 1]
    /\ nf_ref' = "set"
    /\ l_idx' = 0
    /\ e_pc' = "LabelHead"
    /\ UNCHANGED <<cwVars, fpVars, trainVars, lossVars, evalArgs, e_idx, eval_status>>

\* lines 290-297 for one label: loss.forward(label) returns, the examples are checked
EvalCheckLabel ==
    /\ e_pc = "LabelHead"
    /\ l_idx < n_labels
    /\ \E mse \in [DOMAIN adv_mask -> MSEValues] :
        LET dist == [i \in DOMAIN adv_mask |-> Sqrt(mse[i])] IN
        /\ min_dist' = [i \in DOMAIN adv_mask |-> Min(min_dist[i], dist[i])]
        /\ adv_mask' = FlagExamples(adv_mask, dist, tau)
        /\ adv_mask2' = FlagExamples(adv_mask2, dist, tau2)
    /\ l_idx' = l_idx + 1
    /\ UNCHANGED <<cwVars, fpVars, trainVars, lossVars, evalArgs, e_pc, e_idx, nf_ref,
                   eval_status>>

\* line 291 raising: the exception leaves eval, line 299 is not reached
EvalForwardRaises ==
    /\ e_pc = "LabelHead"
    /\ l_idx < n_labels
    /\ EvalAbort("forward raised")
    /\ UNCHANGED <<cwVars, fpVars, trainVars, lossVars, evalArgs, e_idx, l_idx, nf_ref,
                   min_dist, adv_mask, adv_mask2>>

\* line 299: loss.cleanup_attack_batch(), then the next batch
EvalCleanupBatch ==
    /\ e_pc = "LabelHead"
    /\ l_idx >= n_labels
    /\ nf_ref' = "unset"
    /\ e_idx' = e_idx + 1
    /\ e_pc' = "BatchHead"
    /\ UNCHANGED <<cwVars, fpVars, trainVars, lossVars, evalArgs, l_idx, min_dist,
                   adv_mask, adv_mask2, eval_status>>

\* lines 300-301: the accuracy of the last batch; adv_mask is unbound when the
\* loader yielded nothing
EvalReturn ==
    /\ e_pc = "BatchHead"
    /\ e_idx >= n_val
    /\ IF n_val = 0
       THEN EvalAbort("UnboundLocalError")
       ELSE /\ e_pc' = "Done"
            /\ eval_status' = "returned"
    /\ UNCHANGED <<cwVars, fpVars, trainVars, lossVars, evalArgs, e_idx, l_idx, nf_ref,
                   min_dist, adv_mask, adv_mask2>>

NextEval ==
    \/ NeuralFP_init
    \/ EvalStart
    \/ EvalSetupBatch
    \/ EvalCheckLabel
    \/ EvalForwardRaises
    \/ EvalCleanupBatch
    \/ EvalReturn

SpecEval == InitEval /\ [][NextEval]_vars


\* ---------------------------------------------------------- CWLossF6.forward
\* logits of one example
LogitValues == (-MaxLogit)..MaxLogit

\* the arguments of a call of forward, and the object it is called on
CWArgs ==
    /\ cw_normalizer \in BOOLEAN
    /\ cw_kappa \in 0..MaxKappa
    /\ \E C \in 2..MaxCWClass :
        /\ cw_out \in [Range(C) -> LogitValues]
        /\ cw_label \in Range(C)
    /\ cw_targeted \in BOOLEAN
    /\ cw_max_other = Unbound
    /\ cw_f6 = Unbound
    /\ cw_status = "new"

InitCW == FPIdle /\ TrainIdle /\ NoTrainArgs /\ LossIdle /\ EvalIdle /\ CWArgs

\* torch.topk(classifier_out, 2, dim=1) on one row: the index pairs it can
\* return, two distinct positions holding the two largest values in descending
\* order; which of several equal entries it names is not specified
TopK2(row) ==
    {t \in (DOMAIN row) \X (DOMAIN row) :
        /\ t[1] # t[2]
        /\ \A k \in DOMAIN row : row[t[1]] >= row[k]
        /\ \A k \in DOMAIN row \ {t[1]} : row[t[2]] >= row[k]}

\* lines 162-164: targets_eq_max * second_max + targets_ne_max * top_max
max_other_swapped(top_max, second_max, top_argmax, label) ==
    LET targets_eq_max == IF top_argmax = label THEN 1 ELSE 0
        targets_ne_max == IF top_argmax # label THEN 1 ELSE 0
    IN  targets_eq_max * top_max + targets_ne_max * second_max

max_other(top_max, second_max, top_argmax, label) ==
    LET targets_eq_max == IF top_argmax = label THEN 1 ELSE 0
        targets_ne_max == IF top_argmax # label THEN 1 ELSE 0
    IN  targets_eq_max * second_max + targets_ne_max * top_max

\* torch.clamp(x, min=lo)
Clamp(x, lo) == IF x < lo THEN lo ELSE x

\* lines 153-175 with a normalizer
CWLossF6_forward ==
    /\ cw_status = "new"
    /\ cw_normalizer
    /\ \E t \in TopK2(cw_out) :
        LET target_logits == cw_out[cw_label]
            mo == max_other(cw_out[t[1]], cw_out[t[2]], t[1], cw_label)
        IN  /\ cw_max_other' = Some(mo)
            /\ cw_f6' = Some(IF cw_targeted
                             THEN Clamp(mo - target_logits, (-1) * cw_kappa)
                             ELSE Clamp(target_logits - mo, (-1) * cw_kappa))
    /\ cw_status' = "ok"
    /\ UNCHANGED <<fpVars, trainVars, lossVars, evalVars, cw_normalizer, cw_kappa, cw_out,
                   cw_label, cw_targeted>>

\* line 153 with the default normalizer=None: None has no forward
CWLossF6_forward_raise ==
    /\ cw_status = "new"
    /\ ~cw_normalizer
    /\ cw_status' = "AttributeError"
    /\ UNCHANGED <<fpVars, trainVars, lossVars, evalVars, cw_normalizer, cw_kappa, cw_out,
                   cw_label, cw_targeted, cw_max_other, cw_f6>>

NextCW == CWLossF6_forward \/ CWLossF6_forward_raise

SpecCW == InitCW /\ [][NextCW]_vars

\* ------------------------------------------------------------------ claims

\* positions of train at which inputs_net is the augmented batch of the
\* current batch step
BatchBuilt == {"zero_grad", "forward", "combine", "backward", "step"}

\* C1: with D >= 1 directions and B examples the augmented batch has exactly
\* B*(D+1) rows, rows [0,B) are the inputs, and row block i (1 <= i <= D) is
\* input + direction_i, one single direction added.
AugmentedBatchSizing ==
    (pc \in BatchBuilt /\ num_dx >= 1) =>
        LET B == real_bs IN
        /\ Size(inputs_net) = B * (num_dx + 1)
        /\ \A n \in Range(B) : inputs_net[n] = inputs[n]
        /\ \A i \in 1..num_dx : \A n \in Range(B) :
               inputs_net[i * B + n] = inputs[n] + Get(fp_dx)[i - 1]

\* the fingerprint of the object is the cifar-like one (own-class entry 0.9)
CifarLikeFingerprint == Get(fp_target)[0][0][0] = 9000

\* C2: for numClasses >= 2 and D >= 1, for all c # c2 and all j, the own-class
\* entry is the profile's "on" value and every other entry its "off" value
\* (cifar-like 0.9 and -0.381, difference 1.281; mnist-like 0.7 and -0.2357).
FingerprintSeparation ==
    (init_status = "ok" /\ num_class >= 2 /\ num_dx >= 1) =>
        \A c \in Range(num_class), c2 \in Range(num_class), j \in Range(num_dx) :
            c # c2 =>
                LET own == Get(fp_target)[c][j][c]
                    other == Get(fp_target)[c][j][c2]
                IN  IF dataset_name = "mnist"
                    THEN own = 7000 /\ other = -2357 /\ own - other = 9357
                    ELSE own = 9000 /\ other = -3810 /\ own - other = 12810

FingerprintSeparationWitness ==
    /\ init_status = "ok"
    /\ dataset_name = "cifar"
    /\ num_class = 2
    /\ num_dx = 2
    /\ Get(fp_target)[1][1][1] - Get(fp_target)[1][1][0] = 12810

\* C4: construction with numDirections <= 0 or numClasses <= 1 fails, and then
\* no fingerprint is produced or persisted.
BadCountsRejected ==
    (init_status # "new" /\ (num_dx <= 0 \/ num_class <= 1)) =>
        /\ init_status # "ok"
        /\ fp_dx = None
        /\ fp_target = None
    /\ fp_target_type = "None"
        /\ fp_files = None

\* a/b = c/d for two <<numerator, denominator>> pairs
SameRatio(p, q) == p[1] * q[2] = q[1] * p[2]

\* C7: the factor on the fingerprint loss is the override when one is given
\* (0 included), otherwise 1 + 50/D when the object's fingerprint is the
\* cifar-like one, otherwise 1.
FingerprintLossScale ==
    (pc \in {"backward", "step"} /\ num_dx >= 1) =>
        SameRatio(loss_scale,
                  IF regularize_adv_scale # None THEN <<Get(regularize_adv_scale), 1>>
                  ELSE IF CifarLikeFingerprint THEN <<num_dx + 50, num_dx>>
                  ELSE <<1, 1>>)

\* C8: for num_epochs >= 0 and a finite loader, train ends by returning after
\* exactly num_epochs + 1 epochs, each of one batch step per batch followed by
\* one epoch end.
TrainRunsEpochsPlusOne ==
    /\ (pc \in {"Done", "Aborted"} /\ num_dx >= 1) =>
           /\ pc = "Done"
           /\ epochs_run = num_epochs + 1
           /\ params = (num_epochs + 1) * n_batches
    /\ (pc = "EpochHead" /\ epochs_run > 0) => steps_run = n_batches

\* the terms of the loss that are reference regularizers
ReferenceTerms == {k \in DOMAIN losses : IsReference(losses[k])}

\* C3: after cleanup_attack_batch every reference term's fixed image is unset,
\* and the forward of a reference term whose fixed image is unset (cleared by
\* cleanup_attack_batch, or never set since construction) raises instead of
\* returning a score, called directly or through RegularizedLoss.forward.
ReferenceLifecycle ==
    /\ last_op = "cleanup_attack_batch" =>
           \A k \in ReferenceTerms : fix_im[k] = NoneImage
    /\ \A k \in ReferenceTerms :
           (last_op = TermOp(k) /\ fix_im[k].attr # "image") =>
               result.status \in {"TypeError", "AttributeError"}
    /\ (last_op = "forward" /\ \E k \in ReferenceTerms : fix_im[k].attr # "image") =>
           result.status \notin {"ok", "None"}

ReferenceLifecycleWitness ==
    /\ last_op = TermOp("a")
    /\ losses["a"].kind = "LpipsRegularization"
    /\ fix_im["a"] = NoneImage
    /\ result.status = "TypeError"

\* the number of terms of the loss that hold the network n
HoldersOf(n) == Cardinality({k \in DOMAIN losses : Holds(NetsOf(losses[k]), n)})

\* C5 as stated: one outer zero_grad resets every network reachable from the
\* terms exactly once.
GradientsResetExactlyOnce ==
    last_op = "zero_grad" =>
        \A n \in AllNets : HoldersOf(n) > 0 => zero_calls[n] = 1

\* C5 as amended: one outer zero_grad resets every network reachable from the
\* terms once per term that holds it, and leaves its gradients zero.
GradientsResetPerTerm ==
    last_op = "zero_grad" =>
        \A n \in AllNets :
            /\ zero_calls[n] = HoldersOf(n)
            /\ HoldersOf(n) > 0 => net_grad[n] = "zero"

GradientsResetPerTermWitness ==
    /\ last_op = "zero_grad"
    /\ zero_calls["net1"] = 2
    /\ zero_calls["net2"] = 0

\* a weight the contract of forward accepts for a term of this output shape
ValidWeight(w, shape) ==
    \/ IsNumber(w)
    \/ w.type = "tensor" /\ (NumelIsOne(w.shape) \/ w.shape = shape)

\* every term of the loss can be evaluated
TermsEvaluable == \A k \in DOMAIN losses : TermForward(losses[k], fix_im[k], 0).status = "ok"

\* the sum over the terms, from the i-th of the order on, of score times weight
RECURSIVE WeightedSum(_, _, _)
WeightedSum(order, i, examples) ==
    IF i > Len(order) THEN 0
    ELSE TermForward(losses[order[i]], fix_im[order[i]], examples).value
             * scalars[order[i]].val
         + WeightedSum(order, i + 1, examples)

\* C10: forward accepts a plain number (int or float), a single-element tensor
\* or a tensor of the term's output shape and returns the weighted sum; with
\* any other weight (another shape, or None after cleanup) it fails with the
\* shape-mismatch error, and it fails in no other way.
WeightContract ==
    (last_op = "forward" /\ DOMAIN losses # {} /\ TermsEvaluable) =>
        IF \A k \in DOMAIN losses : ValidWeight(scalars[k], OutShape(losses[k]))
        THEN /\ result.status = "ok"
             /\ \E examples \in Images :
                    result.value = WeightedSum(AnyOrder(DOMAIN losses), 1, examples)
        ELSE result.status = "AssertionError"

CleanupStep == rl_status = "ok" /\ last_op' = "cleanup_attack_batch"

\* C11: the names with weights are the names with terms in every state of a
\* constructed RegularizedLoss; construction with differing name sets never
\* yields an object; cleanup_attack_batch keeps the terms and the plain-number
\* weights and sets every other weight to None.
NameSetsAgree ==
    /\ [](rl_status = "ok" => DOMAIN scalars = DOMAIN losses)
    /\ [][(rl_status = "new" /\ DOMAIN scalars # DOMAIN losses) =>
              rl_status' = "AssertionError"]_vars
    /\ [][CleanupStep =>
              /\ losses' = losses
              /\ DOMAIN scalars' = DOMAIN scalars
              /\ \A k \in DOMAIN scalars :
                    scalars'[k] = IF IsNumber(scalars[k]) THEN scalars[k]
                                  ELSE NoneWeight]_vars

NameSetsAgreeWitness ==
    /\ rl_status = "ok"
    /\ last_op = "cleanup_attack_batch"
    /\ DOMAIN losses = Names
    /\ \E k \in DOMAIN scalars : IsNumber(scalars[k])
    /\ \E k \in DOMAIN scalars : scalars[k] = NoneWeight

\* the position that follows each position of a batch step
NextInBatchStep(p) ==
    CASE p = "zero_grad" -> {"forward"}
      [] p = "forward" -> {"combine"}
      [] p = "combine" -> {"backward", "Aborted"}
      [] p = "backward" -> {"step"}
      [] p = "step" -> {"BatchHead"}
      [] OTHER -> {"Idle", "EpochHead", "BatchHead", "zero_grad", "Aborted", "Done"}

\* C12: a batch step runs zero_grad, forward, loss, backward, optimizer step
\* in this order; the forward/backward cycle starts with zeroed gradients;
\* a batch begins only when every earlier batch has had its optimizer step;
\* the parameters change in the optimizer step only, after a backward.
BatchStepOrder ==
    /\ [][pc' # pc => pc' \in NextInBatchStep(pc)]_vars
    /\ [](pc \in {"forward", "combine", "backward"} => grads = "zero")
    /\ [](pc = "step" => grads = "accum" /\ loss_bound)
    /\ [](pc = "zero_grad" => params = epochs_run * n_batches + idx)
    /\ [][params' # params =>
              pc = "step" /\ pc' = "BatchHead" /\ params' = params + 1]_vars

\* a second batch step has passed its forward after the first left gradients
BatchStepOrderWitness ==
    /\ pc = "backward"
    /\ params >= 1
    /\ idx >= 1
    /\ grads = "zero"

\* the highest logit among the classes other than the label
HighestOther(row, label) ==
    CHOOSE v \in {row[j] : j \in DOMAIN row \ {label}} :
        \A j \in DOMAIN row \ {label} : row[j] <= v

Larger(a, b) == IF a >= b THEN a ELSE b

\* C13: for a row of at least two logits, any label and kappa >= 0, max_other
\* is the highest logit among the classes other than the label, ties included,
\* f6 is max(max_other - target, -kappa) when targeted and
\* max(target - max_other, -kappa) otherwise, and f6 >= -kappa.
MarginLoss ==
    cw_status = "ok" =>
        LET target == cw_out[cw_label]
            other == HighestOther(cw_out, cw_label)
        IN  /\ cw_max_other = Some(other)
            /\ cw_f6 = Some(IF cw_targeted THEN Larger(other - target, 0 - cw_kappa)
                            ELSE Larger(target - other, 0 - cw_kappa))
            /\ Get(cw_f6) >= 0 - cw_kappa

\* three classes whose logits all tie, a positive kappa
MarginLossTieWitness ==
    /\ cw_status = "ok"
    /\ Cardinality(DOMAIN cw_out) >= 3
    /\ \A j \in DOMAIN cw_out : cw_out[j] = cw_out[cw_label]
    /\ cw_kappa >= 1
    /\ cw_f6 = Some(0)

====
